---- MODULE Spec2Model ----
(***************************************************************************)
(* Model of renpho-ble-scale: the packet parser (protocol.ts), the         *)
(* RenphoScale session (RenphoScale.ts: emit/on/once/off, handlePacket,    *)
(* startListening, destroy, stopListening) and the reconnect loop          *)
(* runMessageLoop.                                                         *)
(*                                                                         *)
(* JavaScript runs one macrotask at a time and drains the microtask queue  *)
(* before the next one, so every action below is one macrotask together    *)
(* with the promise continuations it makes runnable.  The suspension       *)
(* points of the code (service lookup, startNotifications, writeValue,     *)
(* stopNotifications, connect, delay) separate the actions.                *)
(***************************************************************************)
EXTENDS Integers, Sequences, FiniteSets, TLC

VARIABLES
    scales,   \* the RenphoScale objects created so far, each with its GATT channel
    trace,    \* what the sessions did, in order: emits, listener calls, writes
    notifs,   \* the number of notification buffers delivered to a listener so far
    sup,      \* the locals of runMessageLoop
    packet    \* what the latest direct call of parseIncomingPacket returned

vars == <<scales, trace, notifs, sup, packet>>

----------------------------------------------------------------------------
(* Bounds of the model *)

MaxNotifs == 3      \* notification buffers delivered to one session
MaxDeviceNotifs == 4  \* packets the protocol-following scale sends
MaxStarts == 2      \* startListening() calls on one session
MaxDestroys == 2    \* destroy() calls made by the caller on one session
MaxSessions == 2    \* sessions the supervisor creates in one behaviour
MaxLifeNotifs == 1  \* notification buffers delivered in the life-cycle behaviours
MaxEmitUser == 2    \* handlers the caller registers in the listener behaviours
MaxEmitNotifs == 2  \* notification buffers delivered in the listener behaviours
MaxSupNotifs == 2   \* notification buffers delivered in the supervisor behaviours
MaxUser == 1        \* handlers the caller registers in the life-cycle behaviours
MaxOnConnectSessions == 1  \* sessions whose onConnect starts them
MaxOnConnectNotifs == 1    \* notification buffers delivered to such sessions

----------------------------------------------------------------------------
(* protocol.ts: buffers and packets *)

\* What JavaScript yields for an index outside the buffer.
Undefined == -1
\* The result of arithmetic on undefined.
NaN == -2

\* buf[i] with JavaScript's 0-based index; undefined outside the buffer.
At(buf, i) == IF i >= 0 /\ i < Len(buf) THEN buf[i + 1] ELSE Undefined

\* ToInt32 of a non-negative integer below 2^47, by 16-bit halves: the low
\* 32 bits, read as a signed number.
ToInt32(v) ==
    LET hi == (v \div 65536) % 65536
        lo == v % 65536
    IN  IF hi >= 32768 THEN (hi - 65536) * 65536 + lo ELSE hi * 65536 + lo

\* Mutant: the shifted byte is kept in 16 bits, signed.
Shl8_Int16(x) ==
    IF x = Undefined THEN 0
    ELSE IF x * 256 >= 32768 THEN x * 256 - 65536 ELSE x * 256

\* x << 8 on a byte or undefined (ToInt32(undefined) = 0); the result is a
\* signed 32-bit integer.
Shl8(x) == IF x = Undefined THEN 0 ELSE ToInt32(x * 256)

\* a + b on numbers or undefined.
JsAdd(a, b) == IF a = Undefined \/ b = Undefined \/ a = NaN \/ b = NaN THEN NaN ELSE a + b

\* weightValue is kept as the dividend of the division by 100.
parseIncomingPacket(buf) ==
    LET packetId == At(buf, 0)
        base == [packetId |-> packetId,
                 len |-> At(buf, 1),
                 checksum |-> At(buf, Len(buf) - 1),
                 data |-> buf,
                 scaleType |-> Undefined,
                 weightValue |-> Undefined]
    IN  IF packetId = 16
        THEN [base EXCEPT !.scaleType = At(buf, 2),
                          !.weightValue = JsAdd(Shl8(At(buf, 3)), At(buf, 4))]
        ELSE base

\* no call of parseIncomingPacket has been made
NoPacket == [packetId |-> Undefined, len |-> Undefined, checksum |-> Undefined,
             data |-> <<>>, scaleType |-> Undefined, weightValue |-> Undefined]

----------------------------------------------------------------------------
(* RenphoScale.handlePacket: the command bytes and the switch *)

magicBytesForFirstPacket == <<19, 9, 21, 1, 16, 0, 0, 0, 66>>
magicBytesForSecondPacket == <<32, 8, 21, 9, 11, 172, 41, 38>>
stopPacket == <<31, 5, 21, 16, 73>>

\* Mutant: the acknowledgement of the second handshake packet was copied from
\* the first and not changed.
Branch_CopyPaste(p) ==
    CASE p.packetId = 18 -> [send |-> magicBytesForFirstPacket, ev |-> ""]
      [] p.packetId = 20 -> [send |-> magicBytesForFirstPacket, ev |-> ""]
      [] p.packetId = 16 /\ At(p.data, 5) = 0 -> [send |-> <<>>, ev |-> "liveupdate"]
      [] p.packetId = 16 /\ At(p.data, 5) = 1 -> [send |-> stopPacket, ev |-> "measurement"]
      [] OTHER -> [send |-> <<>>, ev |-> ""]

\* Mutant: "else" in place of "else if (flag === 1)".
Branch_ElseFinal(p) ==
    CASE p.packetId = 18 -> [send |-> magicBytesForFirstPacket, ev |-> ""]
      [] p.packetId = 20 -> [send |-> magicBytesForSecondPacket, ev |-> ""]
      [] p.packetId = 16 /\ At(p.data, 5) = 0 -> [send |-> <<>>, ev |-> "liveupdate"]
      [] p.packetId = 16 -> [send |-> stopPacket, ev |-> "measurement"]
      [] OTHER -> [send |-> <<>>, ev |-> ""]

\* The branch of the switch a packet takes: the bytes it writes (<<>> for
\* none), the event it raises ("" for none), and whether the event waits for
\* the write.
Branch(p) ==
    CASE p.packetId = 18 -> [send |-> magicBytesForFirstPacket, ev |-> ""]
      [] p.packetId = 20 -> [send |-> magicBytesForSecondPacket, ev |-> ""]
      [] p.packetId = 16 /\ At(p.data, 5) = 0 -> [send |-> <<>>, ev |-> "liveupdate"]
      [] p.packetId = 16 /\ At(p.data, 5) = 1 -> [send |-> stopPacket, ev |-> "measurement"]
      [] OTHER -> [send |-> <<>>, ev |-> ""]

----------------------------------------------------------------------------
(* The world the handlers act on: the four variables, plus "exc", an       *)
(* exception propagating out of the code that is running.                  *)

World == [scales |-> scales, trace |-> trace, notifs |-> notifs, sup |-> sup,
          exc |-> FALSE]

EventNames == {"liveupdate", "measurement", "data", "timeout"}

\* One entry of the trace. t: "emit" (an emit() call; for "data", bytes is
\* the packet's data), "call" (a caller's handler invoked), "write"
\* (writeValue called with bytes). s: session, n: notification number
\* (0: none), k: the startListening call whose closure ran. "recv":
\* handleValueChange of closure k was called with buffer bytes. "destroy":
\* destroy() was called. "arm": closure k called setTimeout.
Entry(t, s, n, k, ev, arg, bytes, h) ==
    [t |-> t, s |-> s, n |-> n, k |-> k, ev |-> ev, arg |-> arg, bytes |-> bytes, h |-> h]

Log(w, e) == [w EXCEPT !.trace = Append(@, e)]

\* The handlers of the model. "reset": the data listener startListening call
\* id registers; "flag": runMessageLoop's timeout/measurement listener; the
\* rest are the caller's, told apart by id: "log" returns, "throw" throws,
\* "destroy" calls destroy(), "once" is the wrapper once() registers around
\* a "log".
Handler(kind, id) == [kind |-> kind, id |-> id]

NoHandler == Handler("", 0)

RemoveAt(seq, j) == [x \in 1..(Len(seq) - 1) |-> IF x < j THEN seq[x] ELSE seq[x + 1]]

IndexOf(seq, x) ==
    IF \E j \in 1..Len(seq) : seq[j] = x
    THEN CHOOSE j \in 1..Len(seq) : seq[j] = x /\ \A m \in 1..(j - 1) : seq[m] # x
    ELSE 0

\* constructor and field initialisers
NewScale ==
    [listeners |-> [e \in EventNames |-> <<>>],
     timeoutHandle |-> "undefined",  \* "armed": the newest timer, still pending;
                                     \* "stale": a timer that has fired
     eventChar |-> FALSE,            \* this.eventChar is set
     closures |-> <<>>,              \* one per startListening call past its guard
     timers |-> <<>>,                \* pending setTimeout timers, by owning closure
     subs |-> <<>>,                  \* "valuechanged" listeners on the notify characteristic
     notifying |-> FALSE,            \* the characteristic delivers notifications
     writes |-> {},                  \* writeValue calls: "pending", "ok" or "failed"
     stops |-> 0,                    \* stopNotifications calls not yet settled
     stopCalls |-> 0,                \* stopNotifications calls made
     startCalls |-> 0,               \* startListening() calls made
     destroyCalls |-> 0]             \* destroy() calls made

\* clearTimeout(this.timeoutHandle); this.timeoutHandle = undefined
ClearTimer(s) ==
    [s EXCEPT !.timers = IF s.timeoutHandle = "armed" THEN RemoveAt(@, Len(@)) ELSE @,
              !.timeoutHandle = "undefined"]

\* resetTimer of closure k; the trace records the setTimeout call ("arm")
resetTimer(w, i, k) ==
    LET s == w.scales[i]
        c == IF s.timeoutHandle # "undefined" THEN ClearTimer(s) ELSE s
    IN  Log([w EXCEPT !.scales[i] = [c EXCEPT !.timers = Append(@, k),
                                              !.timeoutHandle = "armed"]],
            Entry("arm", i, 0, k, "", Undefined, <<>>, NoHandler))

\* stopListening up to its await
stopListening(w, i) ==
    IF ~w.scales[i].eventChar THEN w
    ELSE [w EXCEPT !.scales[i].stops = @ + 1, !.scales[i].stopCalls = @ + 1]

\* destroy() up to its await
destroy(w, i) ==
    LET s == w.scales[i]
        c == IF s.timeoutHandle # "undefined" THEN ClearTimer(s) ELSE s
    IN  stopListening(Log([w EXCEPT !.scales[i] = [c EXCEPT !.destroyCalls = @ + 1]],
                          Entry("destroy", i, 0, 0, "", Undefined, <<>>, NoHandler)), i)

\* off(eventName, handler)
off(w, i, ev, h) ==
    LET j == IndexOf(w.scales[i].listeners[ev], h)
    IN  IF j > 0 THEN [w EXCEPT !.scales[i].listeners[ev] = RemoveAt(@, j)] ELSE w

\* off(eventName)
offAll(w, i, ev) == [w EXCEPT !.scales[i].listeners[ev] = <<>>]

\* on(eventName, handler)
on(w, i, ev, h) == [w EXCEPT !.scales[i].listeners[ev] = Append(@, h)]

\* the listener runMessageLoop registers: if (raiseFlag) raiseFlag()
raiseFlagListener(w, i) ==
    IF w.sup.pc = "waiting" /\ w.sup.cur = i THEN [w EXCEPT !.sup.resolved = TRUE] ELSE w

\* Mutant: the data listener of startListening does not reset the timer.
CallListener_NoReset(w, i, ev, n, k, arg, h) ==
    LET called == Log(w, Entry("call", i, n, k, ev, arg, <<>>, h))
    IN  CASE h.kind = "reset" -> w
          [] h.kind = "flag" -> raiseFlagListener(w, i)
          [] h.kind = "log" -> called
          [] h.kind = "throw" -> [called EXCEPT !.exc = TRUE]
          [] h.kind = "destroy" -> destroy(called, i)
          [] h.kind = "once" -> Log(off(w, i, ev, h), Entry("call", i, n, k, ev, arg, <<>>, h))

\* One listener invoked by emit.
CallListener(w, i, ev, n, k, arg, h) ==
    LET called == Log(w, Entry("call", i, n, k, ev, arg, <<>>, h))
    IN  CASE h.kind = "reset" -> resetTimer(w, i, h.id)
          [] h.kind = "flag" -> raiseFlagListener(w, i)
          [] h.kind = "log" -> called
          [] h.kind = "throw" -> [called EXCEPT !.exc = TRUE]
          [] h.kind = "destroy" -> destroy(called, i)
          [] h.kind = "once" -> Log(off(w, i, ev, h), Entry("call", i, n, k, ev, arg, <<>>, h))

\* Array.prototype.forEach over the live listener array: indices below the
\* length at the start, those no longer present are skipped; a throw ends it.
RECURSIVE forEachListener(_, _, _, _, _, _, _, _)
forEachListener(w, i, ev, n, k, arg, idx, len) ==
    IF idx > len \/ idx > Len(w.scales[i].listeners[ev]) THEN w
    ELSE LET w1 == CallListener(w, i, ev, n, k, arg, w.scales[i].listeners[ev][idx])
         IN  IF w1.exc THEN w1 ELSE forEachListener(w1, i, ev, n, k, arg, idx + 1, len)

\* emit(eventName, ...args)
emit(w, i, ev, n, k, arg, data) ==
    forEachListener(Log(w, Entry("emit", i, n, k, ev, arg, data, NoHandler)),
                    i, ev, n, k, arg, 1, Len(w.scales[i].listeners[ev]))

\* sendCommand up to its await: char.writeValue(buf) is called; "then" is the
\* event handlePacket raises once the write has resolved ("" for none).
sendCommand(w, i, n, k, bytes, then, arg) ==
    [Log(w, Entry("write", i, n, k, "", Undefined, bytes, NoHandler))
        EXCEPT !.scales[i].writes = @ \cup {[n |-> n, k |-> k, bytes |-> bytes,
                                             then |-> then, arg |-> arg,
                                             st |-> "pending"]}]

\* Mutant: case 0x12 lacks its return and falls through into case 0x14.
handlePacket_Fallthrough(w, i, n, k, p) ==
    LET w1 == emit(w, i, "data", n, k, p.packetId, p.data)
        b == Branch(p)
    IN  IF w1.exc THEN w1
        ELSE IF p.packetId = 18
        THEN sendCommand(sendCommand(w1, i, n, k, magicBytesForFirstPacket, "", Undefined),
                         i, n, k, magicBytesForSecondPacket, "", Undefined)
        ELSE IF b.send # <<>> THEN sendCommand(w1, i, n, k, b.send, b.ev, p.weightValue)
        ELSE IF b.ev # "" THEN emit(w1, i, b.ev, n, k, p.weightValue, <<>>)
        ELSE w1

\* Mutant: sendCommand is called without await, the event follows at once.
handlePacket_NoAwait(w, i, n, k, p) ==
    LET w1 == emit(w, i, "data", n, k, p.packetId, p.data)
        b == Branch(p)
    IN  IF w1.exc THEN w1
        ELSE IF b.send # <<>>
        THEN LET w2 == sendCommand(w1, i, n, k, b.send, "", Undefined)
             IN  IF b.ev # "" THEN emit(w2, i, b.ev, n, k, p.weightValue, <<>>) ELSE w2
        ELSE IF b.ev # "" THEN emit(w1, i, b.ev, n, k, p.weightValue, <<>>)
        ELSE w1

\* handlePacket up to its first await (or to its end)
handlePacket(w, i, n, k, p) ==
    LET w1 == emit(w, i, "data", n, k, p.packetId, p.data)
        b == Branch(p)
    IN  IF w1.exc THEN w1
        ELSE IF b.send # <<>> THEN sendCommand(w1, i, n, k, b.send, b.ev, p.weightValue)
        ELSE IF b.ev # "" THEN emit(w1, i, b.ev, n, k, p.weightValue, <<>>)
        ELSE w1

\* .catch(err => logger.warn(...)) on the promise of handlePacket
Caught(w) == [w EXCEPT !.exc = FALSE]

\* handleValueChange of closure k
handleValueChange(w, i, n, k, buf) ==
    LET w1 == Log(w, Entry("recv", i, n, k, "", Undefined, buf, NoHandler))
    IN  IF w.scales[i].closures[k].didTimeout THEN w1
        ELSE Caught(handlePacket(w1, i, n, k, parseIncomingPacket(buf)))

\* handleTimeout of closure k
handleTimeout(w, i, k) ==
    LET w1 == emit([w EXCEPT !.scales[i].closures[k].didTimeout = TRUE],
                   i, "timeout", 0, k, Undefined, <<>>)
        j == IndexOf(w1.scales[i].subs, k)
        w2 == IF j > 0 THEN [w1 EXCEPT !.scales[i].subs = RemoveAt(@, j)] ELSE w1
    IN  IF w1.exc THEN Caught(w1) ELSE destroy(w2, i)

----------------------------------------------------------------------------
(* runMessageLoop *)

\* sup.pc: "none" (no loop is running), "connecting" (in RenphoScale.connect),
\* "starting" (awaiting startListening), "waiting" (awaiting the promise that
\* raiseFlag resolves), "delay" (awaiting delay(1)), "stopped" (after finally).
\* sup.onConnect: the caller passed an onConnect callback.
NoLoop == [pc |-> "none", once |-> FALSE, onConnect |-> FALSE, cur |-> 0,
           resolved |-> FALSE, destroyScaleSession |-> 0]

\* Mutant: the loop lacks "if (once) break".
afterRaiseFlag_NoBreak(w) ==
    IF w.sup.pc = "waiting" /\ w.sup.resolved
    THEN [w EXCEPT !.sup.destroyScaleSession = w.sup.cur, !.sup.resolved = FALSE,
                   !.sup.pc = "delay"]
    ELSE w

\* The continuation of "await new Promise(...)" up to the next await of the
\* loop: connectAndHandle returns the destructor; with once the loop breaks
\* and finally calls it.
afterRaiseFlag(w) ==
    IF w.sup.pc = "waiting" /\ w.sup.resolved
    THEN LET w1 == [w EXCEPT !.sup.destroyScaleSession = w.sup.cur,
                             !.sup.resolved = FALSE]
         IN  IF w.sup.once
             THEN [destroy(w1, w1.sup.destroyScaleSession) EXCEPT !.sup.pc = "stopped"]
             ELSE [w1 EXCEPT !.sup.pc = "delay"]
    ELSE w

\* Mutant: a failed startListening ends the loop when once is set.
afterStartListening_BreakOnFail(w, i, ok) ==
    IF w.sup.pc = "starting" /\ w.sup.cur = i
    THEN [w EXCEPT !.sup.pc = IF ok THEN "waiting"
                              ELSE IF w.sup.once THEN "stopped" ELSE "delay"]
    ELSE w

\* The continuation of "await scale.startListening(10)" in connectAndHandle:
\* the promise is installed, or the rejection is caught by the loop.
afterStartListening(w, i, ok) ==
    IF w.sup.pc = "starting" /\ w.sup.cur = i
    THEN [w EXCEPT !.sup.pc = IF ok THEN "waiting" ELSE "delay"]
    ELSE w

\* The macrotask is over: the variables take the world's values.
Commit(w) ==
    LET r == afterRaiseFlag(w)
    IN  /\ scales' = r.scales
        /\ trace' = r.trace
        /\ notifs' = r.notifs
        /\ sup' = r.sup
        /\ UNCHANGED packet

----------------------------------------------------------------------------
(* The session's steps *)

\* startListening(): the guard, then suspended in the service lookup
startListening(w, i) ==
    LET w1 == [w EXCEPT !.scales[i].startCalls = @ + 1]
    IN  IF w.scales[i].eventChar THEN w1
        ELSE [w1 EXCEPT !.scales[i].closures =
                            Append(@, [pc |-> "lookup", didTimeout |-> FALSE])]

\* the lookups resolved: eventChar.on("valuechanged", handleValueChange),
\* then suspended in startNotifications
startListeningSubscribe(w, i, k) ==
    [w EXCEPT !.scales[i].subs = Append(@, k),
              !.scales[i].closures[k].pc = "starting"]

\* startNotifications resolved: the rest of startListening
startListeningFinish(w, i, k) ==
    LET w1 == [w EXCEPT !.scales[i].notifying = TRUE,
                        !.scales[i].eventChar = TRUE,
                        !.scales[i].closures[k].pc = "done"]
    IN  on(resetTimer(w1, i, k), i, "data", Handler("reset", k))

\* the valuechanged event of the notify characteristic, to the listeners it
\* had when the event was raised
RECURSIVE valuechanged(_, _, _, _, _)
valuechanged(w, i, n, buf, ks) ==
    IF ks = <<>> THEN w
    ELSE valuechanged(handleValueChange(w, i, n, Head(ks), buf), i, n, buf, Tail(ks))

\* a write resolved: the rest of handlePacket
afterWrite(w, i, wr) ==
    IF wr.then # "" THEN Caught(emit(w, i, wr.then, wr.n, wr.k, wr.arg, <<>>)) ELSE w

\* stopNotifications resolved: this.eventChar = undefined
afterStop(w, i) ==
    [w EXCEPT !.scales[i].stops = @ - 1,
              !.scales[i].notifying = FALSE,
              !.scales[i].eventChar = FALSE]

Sessions == DOMAIN scales

\* the handlers registered on session i, over all events
Registered(i) ==
    {<<e, j>> \in EventNames \X (1..(MaxUser + MaxEmitUser)) :
        j \in DOMAIN scales[i].listeners[e]}

\* The caller registers handler h, before it starts listening; it registers
\* no handler twice.
On(i, ev, h) ==
    /\ scales[i].startCalls = 0
    /\ \A e \in EventNames : \A j \in DOMAIN scales[i].listeners[e] :
           scales[i].listeners[e][j] # h
    /\ Commit(on(World, i, ev, h))

\* Closure k of session i belongs to the startListening call the loop
\* awaits: the loop's call is the last one made on a session.
LoopCall(i, k) == k = Len(scales[i].closures)

StartListening(i) ==
    /\ sup.pc = "none"
    /\ scales[i].startCalls < MaxStarts
    /\ Commit(startListening(World, i))

LookupDone(i, k) ==
    /\ k \in DOMAIN scales[i].closures
    /\ scales[i].closures[k].pc = "lookup"
    /\ Commit(startListeningSubscribe(World, i, k))

LookupFail(i, k) ==
    /\ k \in DOMAIN scales[i].closures
    /\ scales[i].closures[k].pc = "lookup"
    /\ Commit(IF LoopCall(i, k)
              THEN afterStartListening([World EXCEPT !.scales[i].closures[k].pc = "failed"],
                                       i, FALSE)
              ELSE [World EXCEPT !.scales[i].closures[k].pc = "failed"])

StartDone(i, k) ==
    /\ k \in DOMAIN scales[i].closures
    /\ scales[i].closures[k].pc = "starting"
    /\ Commit(IF LoopCall(i, k)
              THEN afterStartListening(startListeningFinish(World, i, k), i, TRUE)
              ELSE startListeningFinish(World, i, k))

StartFail(i, k) ==
    /\ k \in DOMAIN scales[i].closures
    /\ scales[i].closures[k].pc = "starting"
    /\ Commit(IF LoopCall(i, k)
              THEN afterStartListening([World EXCEPT !.scales[i].closures[k].pc = "failed"],
                                       i, FALSE)
              ELSE [World EXCEPT !.scales[i].closures[k].pc = "failed"])

\* The characteristic raises valuechanged with buf. With no listener
\* subscribed nothing runs, and the notification is not counted.
Notify(i, buf) ==
    /\ scales[i].notifying
    /\ IF scales[i].subs = <<>> THEN UNCHANGED vars
       ELSE Commit(valuechanged([World EXCEPT !.notifs = @ + 1],
                                i, notifs + 1, buf, scales[i].subs))

Settle(w, i, wr, st) ==
    [w EXCEPT !.scales[i].writes = (@ \ {wr}) \cup {[wr EXCEPT !.st = st]}]

WriteDone(i, wr) ==
    /\ wr \in scales[i].writes
    /\ wr.st = "pending"
    /\ Commit(afterWrite(Settle(World, i, wr, "ok"), i, wr))

\* Mutant: sendCommand swallows the rejection and handlePacket goes on.
WriteFail_Swallowed(i, wr) ==
    /\ wr \in scales[i].writes
    /\ wr.st = "pending"
    /\ Commit(afterWrite(Settle(World, i, wr, "failed"), i, wr))

\* the write rejected: handlePacket rejects and handleValueChange logs it
WriteFail(i, wr) ==
    /\ wr \in scales[i].writes
    /\ wr.st = "pending"
    /\ Commit(Settle(World, i, wr, "failed"))

\* the timer at position j of the pending timers fires
TimerFire(i, j) ==
    /\ j \in DOMAIN scales[i].timers
    /\ LET s == scales[i]
           fired == [s EXCEPT !.timers = RemoveAt(@, j),
                              !.timeoutHandle =
                                  IF j = Len(s.timers) /\ @ = "armed" THEN "stale" ELSE @]
       IN  Commit(handleTimeout([World EXCEPT !.scales[i] = fired], i, s.timers[j]))

\* The caller calls off(ev, h) for its own handler h on a listening
\* session; the trace records the call ("off").
Off(i, ev, h) ==
    /\ scales[i].eventChar
    /\ h.kind = "log"
    /\ IndexOf(scales[i].listeners[ev], h) > 0
    /\ Commit(Log(off(World, i, ev, h),
                  Entry("off", i, 0, 0, ev, Undefined, <<>>, h)))

\* The caller calls off(ev) without a handler on a listening session.
OffAll(i, ev) ==
    /\ scales[i].eventChar
    /\ scales[i].listeners[ev] # <<>>
    /\ Commit(Log(offAll(World, i, ev),
                  Entry("off", i, 0, 0, ev, Undefined, <<>>, NoHandler)))

Destroy(i) ==
    /\ sup.pc = "none"
    /\ scales[i].destroyCalls < MaxDestroys
    /\ Commit(destroy(World, i))

StopDone(i) ==
    /\ scales[i].stops > 0
    /\ Commit(afterStop(World, i))

\* stopNotifications rejected: destroy() catches the error
StopFail(i) ==
    /\ scales[i].stops > 0
    /\ Commit([World EXCEPT !.scales[i].stops = @ - 1])

----------------------------------------------------------------------------
(* The notification buffers of the model *)

Handshake1 == <<18, 1, 19>>
Handshake2 == <<20, 1, 21>>
Live == <<16, 6, 21, 28, 32, 0, 97>>     \* 0x1C20 = 7200, flag 0
Final == <<16, 6, 21, 28, 82, 1, 148>>   \* 0x1C52 = 7250, flag 1
OtherFlag == <<16, 6, 21, 28, 32, 2, 99>>
Unknown == <<153, 0>>
OneByte == <<18>>
Empty == <<>>

Buffers == {Handshake1, Handshake2, Live, Final, OtherFlag, Unknown, OneByte, Empty}

----------------------------------------------------------------------------
(* One session, driven by its caller and by the transport *)

Init ==
    /\ scales = <<NewScale>>
    /\ trace = <<>>
    /\ notifs = 0
    /\ sup = NoLoop
    /\ packet = NoPacket

\* The caller starts the session once; the device notifies; writes settle;
\* the inactivity timer may fire.
Next ==
    \/ scales[1].startCalls = 0 /\ StartListening(1)
    \/ \E k \in 1..MaxStarts : LookupDone(1, k)
    \/ \E k \in 1..MaxStarts : StartDone(1, k)
    \/ notifs < MaxNotifs /\ \E buf \in Buffers : Notify(1, buf)
    \/ \E wr \in scales[1].writes : WriteDone(1, wr)
    \/ \E wr \in scales[1].writes : WriteFail(1, wr)
    \/ \E j \in 1..(MaxStarts + 1) : TimerFire(1, j)
    \/ StopDone(1)

Spec == Init /\ [][Next]_vars

----------------------------------------------------------------------------
(* One session and a scale that follows its protocol: handshake packet 1,  *)
(* handshake packet 2, then weight packets.                                *)

DeviceSends(n) ==
    IF n = 1 THEN {Handshake1, OneByte}
    ELSE IF n = 2 THEN {Handshake2}
    ELSE {Live, Final}

NextDevice ==
    \/ scales[1].startCalls = 0 /\ StartListening(1)
    \/ \E k \in 1..MaxStarts : LookupDone(1, k)
    \/ \E k \in 1..MaxStarts : StartDone(1, k)
    \/ notifs < MaxDeviceNotifs /\ \E buf \in DeviceSends(notifs + 1) : Notify(1, buf)
    \/ \E wr \in scales[1].writes : WriteDone(1, wr)
    \/ \E wr \in scales[1].writes : WriteFail(1, wr)
    \/ \E j \in 1..(MaxStarts + 1) : TimerFire(1, j)
    \/ StopDone(1)

SpecDevice == Init /\ [][NextDevice]_vars

----------------------------------------------------------------------------
(* One session and its life cycle: the caller may register a handler that  *)
(* calls destroy(), call startListening() again before the first call has  *)
(* returned, and call destroy(); lookups, subscription and unsubscription  *)
(* may fail.  The caller does not restart a session it has destroyed.      *)

LifeBuffers == {Live, Final}

NextLife ==
    \/ \E ev \in EventNames :
           Cardinality(Registered(1)) < MaxUser /\ On(1, ev, Handler("destroy", 1))
    \/ scales[1].destroyCalls = 0 /\ StartListening(1)
    \/ \E k \in 1..MaxStarts : LookupDone(1, k)
    \/ \E k \in 1..MaxStarts : LookupFail(1, k)
    \/ \E k \in 1..MaxStarts : StartDone(1, k)
    \/ \E k \in 1..MaxStarts : StartFail(1, k)
    \/ notifs < MaxLifeNotifs /\ \E buf \in LifeBuffers : Notify(1, buf)
    \/ \E wr \in scales[1].writes : WriteDone(1, wr)
    \/ \E j \in 1..(MaxStarts + 1) : TimerFire(1, j)
    \/ Destroy(1)
    \/ StopDone(1)
    \/ StopFail(1)

SpecLife == Init /\ [][NextLife]_vars

----------------------------------------------------------------------------
(* One session and its listeners: the caller registers handlers that       *)
(* return and handlers that throw on data and liveupdate, in any order.    *)

EmitHandlers == {Handler("throw", 1), Handler("log", 2)}

EmitBuffers == {Live, Unknown}

NextEmit ==
    \/ \E ev \in {"data", "liveupdate"}, h \in EmitHandlers :
           Cardinality(Registered(1)) < MaxEmitUser /\ On(1, ev, h)
    \/ scales[1].startCalls = 0 /\ StartListening(1)
    \/ \E k \in 1..MaxStarts : LookupDone(1, k)
    \/ \E k \in 1..MaxStarts : StartDone(1, k)
    \/ notifs < MaxEmitNotifs /\ \E buf \in EmitBuffers : Notify(1, buf)
    \/ \E j \in 1..(MaxStarts + 1) : TimerFire(1, j)
    \/ StopDone(1)

SpecEmit == Init /\ [][NextEmit]_vars

----------------------------------------------------------------------------
(* One session and its listeners: the caller registers a handler with      *)
(* once() and a handler with on(), on data or liveupdate, in any order.    *)

OnceHandlers == {Handler("once", 1), Handler("log", 2)}

NextOnce ==
    \/ \E ev \in {"data", "liveupdate"}, h \in OnceHandlers :
           Cardinality(Registered(1)) < MaxEmitUser /\ On(1, ev, h)
    \/ scales[1].startCalls = 0 /\ StartListening(1)
    \/ \E k \in 1..MaxStarts : LookupDone(1, k)
    \/ \E k \in 1..MaxStarts : StartDone(1, k)
    \/ notifs < MaxEmitNotifs /\ Notify(1, Live)
    \/ \E j \in 1..(MaxStarts + 1) : TimerFire(1, j)
    \/ StopDone(1)

SpecOnce == Init /\ [][NextOnce]_vars

----------------------------------------------------------------------------
(* One session whose caller registers a data handler and, while the        *)
(* session listens, removes it with off("data", h) or calls off("data").   *)

OffBuffers == {Live, Unknown}

NextOff ==
    \/ Cardinality(Registered(1)) < MaxUser /\ On(1, "data", Handler("log", 2))
    \/ scales[1].startCalls = 0 /\ StartListening(1)
    \/ \E k \in 1..MaxStarts : LookupDone(1, k)
    \/ \E k \in 1..MaxStarts : StartDone(1, k)
    \/ Off(1, "data", Handler("log", 2))
    \/ OffAll(1, "data")
    \/ notifs < MaxEmitNotifs /\ \E buf \in OffBuffers : Notify(1, buf)
    \/ \E j \in 1..(MaxStarts + 1) : TimerFire(1, j)
    \/ StopDone(1)

SpecOff == Init /\ [][NextOff]_vars

----------------------------------------------------------------------------
(* runMessageLoop, the sessions it creates, and the transport *)

\* RenphoScale.connect resolved: the session is constructed, the loop's
\* listeners are registered, onConnect (if passed: withUser) registers the caller's and
\* startListening is called.
connectAndHandle(w, withUser) ==
    LET i == Len(w.scales) + 1
        w1 == [w EXCEPT !.scales = Append(@, NewScale), !.sup.cur = i,
                        !.sup.pc = "starting", !.sup.resolved = FALSE]
        w2 == on(on(w1, i, "timeout", Handler("flag", 0)), i, "measurement", Handler("flag", 0))
        w3 == IF withUser
              THEN on(on(w2, i, "liveupdate", Handler("log", 1)), i, "measurement", Handler("log", 2))
              ELSE w2
    IN  startListening(w3, i)

SupConnect(withUser) ==
    /\ withUser = sup.onConnect
    /\ sup.pc = "connecting"
    /\ Len(scales) < MaxSessions
    /\ Commit(connectAndHandle(World, withUser))

\* RenphoScale.connect resolved and onConnect threw: connectAndHandle
\* rejects before startListening is called, the loop catches it
onConnectThrows(w) ==
    LET i == Len(w.scales) + 1
        w1 == [w EXCEPT !.scales = Append(@, NewScale), !.sup.cur = i,
                        !.sup.pc = "delay", !.sup.resolved = FALSE]
    IN  on(on(w1, i, "timeout", Handler("flag", 0)), i, "measurement", Handler("flag", 0))

SupOnConnectThrows ==
    /\ sup.onConnect
    /\ sup.pc = "connecting"
    /\ Len(scales) < MaxSessions
    /\ Commit(onConnectThrows(World))

\* waitDevice, connect or gatt rejected: caught by the loop
SupConnectFail ==
    /\ sup.pc = "connecting"
    /\ Commit([World EXCEPT !.sup.pc = "delay"])

\* delay(1) resolved: the next iteration
SupDelayDone ==
    /\ sup.pc = "delay"
    /\ Commit([World EXCEPT !.sup.pc = "connecting"])

\* RenphoScale.connect resolved; onConnect calls scale.startListening()
\* and does not await it; then the loop calls startListening.
onConnectStarts(w) ==
    LET i == Len(w.scales) + 1
        w1 == [w EXCEPT !.scales = Append(@, NewScale), !.sup.cur = i,
                        !.sup.pc = "starting", !.sup.resolved = FALSE]
        w2 == on(on(w1, i, "timeout", Handler("flag", 0)), i, "measurement", Handler("flag", 0))
    IN  startListening(startListening(w2, i), i)

SupOnConnectStarts ==
    /\ sup.onConnect
    /\ sup.pc = "connecting"
    /\ Commit(onConnectStarts(World))

SupBuffers == {Live, Final}

InitSup ==
    /\ scales = <<>>
    /\ trace = <<>>
    /\ notifs = 0
    /\ \E once \in BOOLEAN, onConnect \in BOOLEAN :
           sup = [NoLoop EXCEPT !.pc = "connecting", !.once = once,
                                !.onConnect = onConnect]
    /\ packet = NoPacket

NextSup ==
    \/ \E withUser \in BOOLEAN : SupConnect(withUser)
    \/ SupOnConnectThrows
    \/ SupConnectFail
    \/ SupDelayDone
    \/ \E i \in Sessions : LookupDone(i, 1)
    \/ \E i \in Sessions : LookupFail(i, 1)
    \/ \E i \in Sessions : StartDone(i, 1)
    \/ \E i \in Sessions : StartFail(i, 1)
    \/ \E i \in Sessions : notifs < MaxSupNotifs /\ \E buf \in SupBuffers : Notify(i, buf)
    \/ \E i \in Sessions : \E wr \in scales[i].writes : WriteDone(i, wr)
    \/ \E i \in Sessions : \E j \in 1..2 : TimerFire(i, j)
    \/ \E i \in Sessions : StopDone(i)

SpecSup == InitSup /\ [][NextSup]_vars

----------------------------------------------------------------------------
(* runMessageLoop with a caller whose onConnect starts the session itself  *)

InitOnConnect == InitSup /\ sup.onConnect

NextOnConnect ==
    \/ Len(scales) < MaxOnConnectSessions /\ SupOnConnectStarts
    \/ SupDelayDone
    \/ \E i \in Sessions : \E k \in 1..MaxStarts : LookupDone(i, k)
    \/ \E i \in Sessions : \E k \in 1..MaxStarts : StartDone(i, k)
    \/ \E i \in Sessions :
           notifs < MaxOnConnectNotifs /\ \E buf \in SupBuffers : Notify(i, buf)
    \/ \E i \in Sessions : \E wr \in scales[i].writes : WriteDone(i, wr)
    \/ \E i \in Sessions : \E j \in 1..(MaxStarts + 1) : TimerFire(i, j)
    \/ \E i \in Sessions : StopDone(i)

SpecOnConnect == InitOnConnect /\ [][NextOnConnect]_vars

----------------------------------------------------------------------------
(* parseIncomingPacket called directly, on every full weight buffer and on *)
(* the buffers of the sessions above.                                      *)

Byte == 0..255

WeightBuffers ==
    {<<16, 6, t, b3, b4, 0, 0>> : t \in {21, 2}, b3 \in Byte, b4 \in Byte}

Parse(buf) ==
    /\ packet' = parseIncomingPacket(buf)
    /\ UNCHANGED <<scales, trace, notifs, sup>>

\* one call in a behaviour
NextParse == packet = NoPacket /\ \E buf \in WeightBuffers \cup Buffers : Parse(buf)

SpecParse == Init /\ [][NextParse]_vars

----------------------------------------------------------------------------
(* Reading the trace *)

Where(P(_)) == SelectSeq(trace, P)

IsEmit(e, ev) == e.t = "emit" /\ e.ev = ev
IsReading(e) == e.t = "emit" /\ e.ev \in {"liveupdate", "measurement"}

\* the bytes written to the command characteristic, in order
Written == [j \in DOMAIN Where(LAMBDA e : e.t = "write") |->
                Where(LAMBDA e : e.t = "write")[j].bytes]

\* the buffers the notification handler was called with, in order
Received == [j \in DOMAIN Where(LAMBDA e : e.t = "recv") |->
                Where(LAMBDA e : e.t = "recv")[j].bytes]

\* the write of the handling (n, k) has resolved
WriteOk(i, n, k) == \E wr \in scales[i].writes : wr.n = n /\ wr.k = k /\ wr.st = "ok"

AllWritesOk(i) == \A wr \in scales[i].writes : wr.st = "ok"

Flag(buf) == At(buf, 5)

----------------------------------------------------------------------------
(* C1: a session that has received handshake packet 1, handshake packet 2, *)
(* a weight packet with flag 0 and a weight packet with flag 1, in this    *)
(* order, and whose writes have all resolved, has written exactly ack1,    *)
(* ack2, stop in this order, has raised four data events in packet order,  *)
(* and has raised liveupdate(w1) and then measurement(w2) and no other     *)
(* liveupdate or measurement.                                              *)

C1_Scenario ==
    /\ Len(Received) = 4
    /\ At(Received[1], 0) = 18
    /\ At(Received[2], 0) = 20
    /\ At(Received[3], 0) = 16 /\ Flag(Received[3]) = 0
    /\ At(Received[4], 0) = 16 /\ Flag(Received[4]) = 1
    /\ AllWritesOk(1)

C1_HandshakeThenWeights ==
    C1_Scenario =>
        LET data == Where(LAMBDA e : IsEmit(e, "data"))
            readings == Where(IsReading)
        IN  /\ Written = <<magicBytesForFirstPacket, magicBytesForSecondPacket, stopPacket>>
            /\ Len(data) = 4
            /\ \A j \in 1..4 : data[j].n = j /\ data[j].bytes = Received[j]
            /\ Len(readings) = 2
            /\ readings[1].ev = "liveupdate"
            /\ readings[1].arg = Received[3][4] * 256 + Received[3][5]
            /\ readings[2].ev = "measurement"
            /\ readings[2].arg = Received[4][4] * 256 + Received[4][5]

C1_Witness ==
    /\ C1_Scenario
    /\ Len(Written) = 3
    /\ Len(Where(IsReading)) = 2

----------------------------------------------------------------------------
(* What one handling did: the handling (n, k) is closure k's handling of   *)
(* notification n.                                                         *)

Of(e, n, k) == e.n = n /\ e.k = k

WrittenBy(n, k) ==
    [j \in DOMAIN Where(LAMBDA e : e.t = "write" /\ Of(e, n, k)) |->
        Where(LAMBDA e : e.t = "write" /\ Of(e, n, k))[j].bytes]

RaisedBy(ev, n, k) ==
    [j \in DOMAIN Where(LAMBDA e : IsEmit(e, ev) /\ Of(e, n, k)) |->
        Where(LAMBDA e : IsEmit(e, ev) /\ Of(e, n, k))[j].arg]

\* the weight a full weight buffer carries, times 100
WeightOf(buf) == buf[4] * 256 + buf[5]

\* The decision table of the claim: the bytes to write (<<>>: none) and the
\* event to raise ("": none) by packetId and flag.
DecisionTable(packetId, flag) ==
    IF packetId = 18 THEN [write |-> <<19, 9, 21, 1, 16, 0, 0, 0, 66>>, raise |-> ""]
    ELSE IF packetId = 20 THEN [write |-> <<32, 8, 21, 9, 11, 172, 41, 38>>, raise |-> ""]
    ELSE IF packetId = 16 /\ flag = 0 THEN [write |-> <<>>, raise |-> "liveupdate"]
    ELSE IF packetId = 16 /\ flag = 1 THEN [write |-> <<31, 5, 21, 16, 73>>, raise |-> "measurement"]
    ELSE [write |-> <<>>, raise |-> ""]

(* C2: for every decoded packet (every data event), what its handling     *)
(* wrote and raised is the row of the decision table for its packetId and  *)
(* its flag: the handshake packets write their acknowledgement and raise   *)
(* no reading; a weight packet with flag 0 raises liveupdate(weight) and   *)
(* writes nothing; one with flag 1 writes the stop command and raises      *)
(* measurement(weight), once the write has resolved; every other packet    *)
(* writes nothing and raises no reading.                                   *)
C2_DecisionTable ==
    \A j \in DOMAIN trace :
        IsEmit(trace[j], "data") =>
            LET e == trace[j]
                row == DecisionTable(At(e.bytes, 0), Flag(e.bytes))
            IN  /\ WrittenBy(e.n, e.k) = IF row.write = <<>> THEN <<>> ELSE <<row.write>>
                /\ RaisedBy("liveupdate", e.n, e.k) =
                       IF row.raise = "liveupdate" THEN <<WeightOf(e.bytes)>> ELSE <<>>
                /\ RaisedBy("measurement", e.n, e.k) =
                       IF row.raise = "measurement" /\ WriteOk(e.s, e.n, e.k)
                       THEN <<WeightOf(e.bytes)>> ELSE <<>>

\* decoded so far: a handshake packet, a settled reading whose stop command
\* was written and whose measurement was raised, and a packet with no action
C2_Witness ==
    /\ \E j \in DOMAIN trace : IsEmit(trace[j], "data") /\ trace[j].arg = 18
    /\ \E j \in DOMAIN trace :
           /\ IsEmit(trace[j], "data") /\ trace[j].arg = 16 /\ Flag(trace[j].bytes) = 1
           /\ RaisedBy("measurement", trace[j].n, trace[j].k) # <<>>
    /\ \E j \in DOMAIN trace :
           /\ IsEmit(trace[j], "data")
           /\ trace[j].arg \notin {16, 18, 20}

----------------------------------------------------------------------------
IsStop(e) == e.t = "write" /\ e.bytes = <<31, 5, 21, 16, 73>>

IsSettled(e) == e.t = "recv" /\ At(e.bytes, 0) = 16 /\ Flag(e.bytes) = 1

----------------------------------------------------------------------------
(* C4: once timeout has been raised, the session raises no further event   *)
(* and writes no further command.                                          *)
C4_SilentAfterTimeout ==
    \A j \in DOMAIN trace :
        IsEmit(trace[j], "timeout") =>
            \A m \in (j + 1)..Len(trace) : trace[m].t \notin {"emit", "write"}

----------------------------------------------------------------------------
(* C6: a buffer shorter than 2 bytes is dropped: no data event is raised   *)
(* for it and no command is written for it.                                *)
C6_ShortBufferDropped ==
    \A j \in DOMAIN trace :
        (trace[j].t = "recv" /\ Len(trace[j].bytes) < 2) =>
            /\ RaisedBy("data", trace[j].n, trace[j].k) = <<>>
            /\ WrittenBy(trace[j].n, trace[j].k) = <<>>

----------------------------------------------------------------------------
(* C5: once destroy() has been called the session is ended: it raises no   *)
(* event afterwards and its inactivity timer is not armed.                 *)
C5_EndedAfterDestroy ==
    /\ \A j \in DOMAIN trace :
           trace[j].t = "destroy" =>
               \A m \in (j + 1)..Len(trace) : trace[m].t # "emit"
    /\ scales[1].destroyCalls > 0 => scales[1].timers = <<>>

----------------------------------------------------------------------------
(* C7: whatever startListening() calls were made, the session has at most  *)
(* one notification handler subscribed, at most one internal data listener *)
(* and at most one armed timer, and each notification is handled once.     *)
C7_StartListeningIdempotent ==
    /\ Len(scales[1].subs) <= 1
    /\ Len(SelectSeq(scales[1].listeners["data"], LAMBDA h : h.kind = "reset")) <= 1
    /\ Len(scales[1].timers) <= 1
    /\ \A n \in 1..notifs : Len(Where(LAMBDA e : e.t = "recv" /\ e.n = n)) <= 1

----------------------------------------------------------------------------
(* C8: whatever destroy() calls were made, stopNotifications has been      *)
(* called at most once on the notify characteristic.                       *)
C8_UnsubscribeAtMostOnce == scales[1].stopCalls <= 1

----------------------------------------------------------------------------
\* the caller's handlers registered for ev, in registration order
UserListeners(ev) ==
    SelectSeq(scales[1].listeners[ev], LAMBDA h : h.kind \in {"log", "throw"})

\* the caller's handlers that the emission of ev by the handling (n, k) invoked
CalledBy(ev, n, k) ==
    [j \in DOMAIN Where(LAMBDA e : e.t = "call" /\ e.ev = ev /\ Of(e, n, k)) |->
        Where(LAMBDA e : e.t = "call" /\ e.ev = ev /\ Of(e, n, k))[j].h]

(* C9: every emission of data or liveupdate invokes all the handlers       *)
(* registered for the event, in registration order, also when one throws.  *)
C9_ThrowIsolated ==
    \A j \in DOMAIN trace :
        (IsEmit(trace[j], "data") \/ IsEmit(trace[j], "liveupdate")) =>
            CalledBy(trace[j].ev, trace[j].n, trace[j].k) = UserListeners(trace[j].ev)

----------------------------------------------------------------------------
\* the measurement and timeout events session i has raised in trace tr
Terminals(tr, i) ==
    Len(SelectSeq(tr, LAMBDA e : e.t = "emit" /\ e.s = i
                                  /\ e.ev \in {"measurement", "timeout"}))

----------------------------------------------------------------------------
(* C11: for every weight buffer the parsed weight, times 100, is           *)
(* buffer[3] * 256 + buffer[4], a value in 0..65535, and scaleType is      *)
(* buffer[2].                                                              *)
C11_WeightDecoding ==
    (packet.packetId = 16 /\ Len(packet.data) >= 5) =>
        /\ packet.weightValue = packet.data[4] * 256 + packet.data[5]
        /\ packet.weightValue \in 0..65535
        /\ packet.scaleType = packet.data[3]

\* the bytes 0x1C, 0x20 were parsed to 72.00
C11_Witness ==
    /\ packet.packetId = 16
    /\ packet.data[4] = 28 /\ packet.data[5] = 32
    /\ packet.weightValue = 7200
    /\ packet.scaleType = 21

----------------------------------------------------------------------------
IsPacketEvent(e) == e.t = "emit" /\ e.ev \in {"data", "liveupdate", "measurement"}

(* C12: the data, liveupdate and measurement events of a session are       *)
(* raised in the order in which their packets arrived: no event of an      *)
(* earlier notification is raised after an event of a later one.           *)
C12_EventsInPacketOrder ==
    \A j \in DOMAIN trace : \A m \in DOMAIN trace :
        (j < m /\ IsPacketEvent(trace[j]) /\ IsPacketEvent(trace[m])) =>
            trace[j].n <= trace[m].n

----------------------------------------------------------------------------
\* session i is subscribed to the notify channel or holds a pending timer
NotEnded(i) == scales[i].subs # <<>> \/ scales[i].timers # <<>>

(* C13: a session that has raised measurement or timeout is ended, that   *)
(* is neither subscribed nor holding a timer, by the time the supervisor   *)
(* connects again, and stays so while a later session exists.              *)
C13_OneLiveSession ==
    \A i \in Sessions :
        (Terminals(trace, i) > 0 /\ (sup.pc = "connecting" \/ sup.cur # i)) => ~NotEnded(i)

----------------------------------------------------------------------------
\* the handling (n, k) of session i wrote the stop command and the write
\* has resolved
StopWritten(i, n, k) ==
    \E wr \in scales[i].writes :
        wr.n = n /\ wr.k = k /\ wr.bytes = <<31, 5, 21, 16, 73>> /\ wr.st = "ok"

(* C14: every measurement event comes after the stop command of the same   *)
(* packet was written and the write resolved.                              *)
C14_MeasurementAfterStopWrite ==
    \A j \in DOMAIN trace :
        IsEmit(trace[j], "measurement") =>
            /\ StopWritten(trace[j].s, trace[j].n, trace[j].k)
            /\ \E m \in 1..(j - 1) : IsStop(trace[m]) /\ Of(trace[m], trace[j].n, trace[j].k)

\* a measurement was raised, and another stop write is pending or has failed
\* with no measurement for it
C14_Witness ==
    /\ \E j \in DOMAIN trace : IsEmit(trace[j], "measurement")
    /\ \E wr \in scales[1].writes :
           /\ wr.bytes = <<31, 5, 21, 16, 73>> /\ wr.st # "ok"
           /\ RaisedBy("measurement", wr.n, wr.k) = <<>>

----------------------------------------------------------------------------
\* a pending write of session 1 fails in this step
WriteFails ==
    \E wr \in scales[1].writes :
        wr.st = "pending" /\ [wr EXCEPT !.st = "failed"] \in scales'[1].writes

(* C15: a failed write raises no event, then or later, for its packet; the *)
(* step in which it fails changes nothing of the session but the write's   *)
(* status (subscription, listeners and timer stay as they were); and every *)
(* later packet that is handled and takes the same branch writes the same  *)
(* bytes again.                                                            *)
C15_WriteFailureAborts ==
    /\ [](\A wr \in scales[1].writes :
            wr.st = "failed" =>
                /\ RaisedBy("measurement", wr.n, wr.k) = <<>>
                /\ RaisedBy("liveupdate", wr.n, wr.k) = <<>>
                /\ \A j \in DOMAIN trace :
                       (/\ IsEmit(trace[j], "data")
                        /\ trace[j].n > wr.n
                        /\ DecisionTable(At(trace[j].bytes, 0), Flag(trace[j].bytes)).write
                               = wr.bytes)
                       => WrittenBy(trace[j].n, trace[j].k) = <<wr.bytes>>)
    /\ [][WriteFails =>
            /\ trace' = trace
            /\ scales'[1] = [scales[1] EXCEPT !.writes = scales'[1].writes]]_vars

\* a stop write failed and no measurement was raised for it; the session is
\* still subscribed with its timer armed; a later settled reading wrote the
\* stop command again and its measurement was raised
C15_Witness ==
    \E wr \in scales[1].writes :
        /\ wr.st = "failed" /\ wr.bytes = <<31, 5, 21, 16, 73>>
        /\ scales[1].subs # <<>> /\ scales[1].timeoutHandle = "armed"
        /\ \E w2 \in scales[1].writes :
               /\ w2.n > wr.n /\ w2.bytes = wr.bytes /\ w2.st = "ok"
               /\ RaisedBy("measurement", w2.n, w2.k) # <<>>

----------------------------------------------------------------------------
\* the position of the last entry before position j that satisfies P, or 0
LastBefore(j, P(_)) ==
    IF \E m \in 1..(j - 1) : P(trace[m])
    THEN CHOOSE m \in 1..(j - 1) : P(trace[m]) /\ \A x \in (m + 1)..(j - 1) : ~P(trace[x])
    ELSE 0

IsArm(e) == e.t = "arm"
IsData(e) == e.t = "emit" /\ e.ev = "data"

(* C16: every data event, whatever its packetId, is followed at once by a  *)
(* new setTimeout that replaces the pending timer, so that one timer is    *)
(* pending at most; and the timer whose expiry raises timeout was set      *)
(* after the last data event: no packet was decoded while it was running.  *)
C16_DataResetsTimer ==
    /\ \A j \in DOMAIN trace :
           IsData(trace[j]) => (j < Len(trace) /\ IsArm(trace[j + 1]))
    /\ Len(scales[1].timers) <= 1
    /\ \A j \in DOMAIN trace :
           IsEmit(trace[j], "timeout") =>
               /\ LastBefore(j, IsArm) > 0
               /\ LastBefore(j, IsArm) > LastBefore(j, IsData)

\* a packet with an unrecognized packetId was decoded, the timer was set
\* again, and later it expired
C16_Witness ==
    \E j \in DOMAIN trace : \E m \in DOMAIN trace :
        /\ IsData(trace[j]) /\ trace[j].arg \notin {16, 18, 20}
        /\ j < m /\ IsEmit(trace[m], "timeout")

----------------------------------------------------------------------------
\* startListening of the session the loop is starting rejects in this step
StartListeningFails ==
    /\ sup.pc = "starting"
    /\ scales[sup.cur].closures # <<>>
    /\ scales[sup.cur].closures[1].pc # "failed"
    /\ scales'[sup.cur].closures[1].pc = "failed"

(* C17: with once and without it, a failure of the connect, of onConnect   *)
(* or of startListening takes the loop into the delay, and the delay into  *)
(* the next connect; the loop stops from nowhere but its wait on a session *)
(* that has raised measurement or timeout, and only with once.             *)
C17_FailuresRetried ==
    /\ [][StartListeningFails => sup'.pc = "delay"]_vars
    /\ [][(sup.pc = "connecting" /\ sup'.pc # "connecting") =>
              sup'.pc \in {"starting", "delay"}]_vars
    /\ [][(sup.pc = "starting" /\ sup'.pc # "starting") =>
              sup'.pc \in {"waiting", "delay"}]_vars
    /\ [][(sup.pc = "delay" /\ sup'.pc # "delay") => sup'.pc = "connecting"]_vars
    /\ [][(sup'.pc = "stopped" /\ sup.pc # "stopped") =>
              /\ sup.pc = "waiting" /\ sup.once
              /\ Terminals(trace', sup.cur) > 0]_vars

\* with once: startListening of the first session failed, and the loop has
\* connected again and is starting the second session
C17_Witness ==
    /\ sup.once
    /\ Len(scales) = 2
    /\ scales[1].closures # <<>> /\ scales[1].closures[1].pc = "failed"
    /\ sup.pc = "starting" /\ sup.cur = 2

----------------------------------------------------------------------------
(* C18: a session that has raised measurement or timeout is not one the    *)
(* loop is still starting or still waiting on: the event has completed the *)
(* wait, whenever it was raised.                                           *)
C18_NoTerminalMissed ==
    \A i \in Sessions :
        Terminals(trace, i) > 0 => ~(sup.cur = i /\ sup.pc \in {"starting", "waiting"})

----------------------------------------------------------------------------
\* handler h is among the handlers the emission of ev by (n, k) invoked
Invoked(h, ev, n, k) ==
    \E j \in DOMAIN trace :
        trace[j].t = "call" /\ trace[j].ev = ev /\ Of(trace[j], n, k) /\ trace[j].h = h

(* C19: every emission of data or liveupdate invokes every handler that    *)
(* was registered with on() for the event, also when a handler registered  *)
(* with once() before it removes itself during the emission; and a handler *)
(* registered with once() is invoked by one emission at most.              *)
C19_OnceSkipsNoHandler ==
    /\ \A j \in DOMAIN trace :
           (IsEmit(trace[j], "data") \/ IsEmit(trace[j], "liveupdate")) =>
               \A x \in DOMAIN scales[1].listeners[trace[j].ev] :
                   scales[1].listeners[trace[j].ev][x].kind = "log" =>
                       Invoked(scales[1].listeners[trace[j].ev][x],
                               trace[j].ev, trace[j].n, trace[j].k)
    /\ \A ev \in EventNames :
           Len(Where(LAMBDA e : e.t = "call" /\ e.ev = ev /\ e.h.kind = "once")) <= 1

----------------------------------------------------------------------------
(* C20: a session that has raised measurement raises no timeout after it.  *)
C20_NoTimeoutAfterMeasurement ==
    \A j \in DOMAIN trace :
        IsEmit(trace[j], "measurement") =>
            \A m \in (j + 1)..Len(trace) :
                ~(IsEmit(trace[m], "timeout") /\ trace[m].s = trace[j].s)

----------------------------------------------------------------------------
(* C21: every data event raised after the caller has called off("data"),   *)
(* with its own handler or with none, is still followed by a new           *)
(* setTimeout before anything else but handler calls happens.              *)
C21_OffKeepsTimerReset ==
    \A o \in DOMAIN trace : \A j \in DOMAIN trace :
        (trace[o].t = "off" /\ trace[o].ev = "data" /\ o < j /\ IsData(trace[j])) =>
            \E m \in (j + 1)..Len(trace) :
                /\ IsArm(trace[m])
                /\ \A x \in (j + 1)..(m - 1) : trace[x].t = "call"

====
